---- MODULE Spec2Model ----
(***************************************************************************)
(* VegHolic API (src/main.py, src/schemas.py): the cart, address and order *)
(* handlers over the five collections of the document store.  Each action  *)
(* is one request handler run to completion.                               *)
(*                                                                         *)
(* Identifiers are the store's ObjectId strings; they are modelled as      *)
(* positive integers handed out by a per-collection counter (never         *)
(* reused), and BadId stands for any string that ObjectId() rejects.       *)
(* Money is kept in thousandths of a rupee so that round(x, 2) is a real   *)
(* operation (to the nearest multiple of 10).                              *)
(*                                                                         *)
(* SpecAddress, SpecCart and SpecOrder run one group of handlers over its  *)
(* full range of requests; Spec runs every handler together on a narrower  *)
(* range.  ret holds the response of the last request; advances counts the *)
(* advance calls an order has received since it was created.               *)
(*                                                                         *)
(* The Race specifications run the same handlers one store call at a time: *)
(* proc holds each request in flight, the call it is at and what it has    *)
(* read so far, so that calls of different requests interleave.  SpecPrice *)
(* runs the cart over a range of base prices to exercise calc_price.       *)
(***************************************************************************)
EXTENDS Integers, FiniteSets, Sequences, TLC

\* ---------------------------------------------------------------- bounds
MaxAddr   == 2      \* address documents ever inserted
MaxCart   == 2      \* cart lines ever inserted (an order takes at least one)
MaxQty    == 2      \* largest quantity a request carries or a line reaches
MaxAdvance == 5     \* advance calls counted per order
MaxBase   == 20     \* largest fractional base price, in hundredths

\* ---------------------------------------------------------- identifiers
BadId == 0          \* a string ObjectId() raises on
None  == 0          \* Optional[str] = None

oid_ok(id_str) == id_str # BadId

Max(a, b) == IF a >= b THEN a ELSE b
Min(a, b) == IF a <= b THEN a ELSE b

Phones     == {"p1", "p2"}
UserIds    == 1..Cardinality(Phones)
AddrIds    == 1..MaxAddr
ItemIds    == 1..MaxCart
OrderIds   == 1..MaxCart

VARIABLES user, product, address, cartitem, order,
          nUser, nAddr, nItem, nOrder, advances, ret, proc

vars == <<user, product, address, cartitem, order,
          nUser, nAddr, nItem, nOrder, advances, ret, proc>>

\* the requests in flight: one slot per concurrent request, holding the
\* handler it runs, the store call it is at and its local variables
Procs == {"A", "B", "C"}
Idle  == [op |-> "idle", pc |-> "done"]

\* ------------------------------------------------------- store helpers
\* insert(collection, document) -> id
create_document(coll, id, doc) == coll @@ (id :> doc)

delete_one(coll, id) == [i \in DOMAIN coll \ {id} |-> coll[i]]

\* ------------------------------------------------------------- pricing
Known == {"250g", "500g", "1kg", "2kg"}

\* multipliers in quarters: 0.25, 0.5, 1.0, 2.0
WEIGHT_MULTIPLIER == [v \in Known |->
    CASE v = "250g" -> 1 [] v = "500g" -> 2 [] v = "1kg" -> 4 [] v = "2kg" -> 8]

\* round(n/d, 2) for n/d in thousandths: the nearest multiple of 10,
\* an exact tie going to the even hundredth
round2(n, d) ==
    LET unit == 10 * d
        q == n \div unit
        r == n % unit
    IN  10 * (IF 2 * r < unit THEN q
              ELSE IF 2 * r > unit THEN q + 1
              ELSE IF q % 2 = 0 THEN q ELSE q + 1)

\* the prices c/100 below 0.50 whose nearest binary double lies above c/100;
\* the doubles of the others lie below it, except 0.00 and 0.25, which are exact
FLOAT_ABOVE == {1, 2, 4, 5, 7, 8, 10, 11, 13, 14, 16, 17, 19, 20, 22, 23, 26, 27, 28,
                32, 33, 34, 38, 39, 40, 44, 45, 46}

\* the sign of float(price) - price, for a price in whole hundredths that is
\* a multiple of 0.25 or lies below 0.50
FloatError(price_per_kg) ==
    CASE price_per_kg % 250 = 0 -> 0
      [] price_per_kg % 250 # 0 /\ price_per_kg % 10 = 0 /\ price_per_kg < 500 ->
            IF (price_per_kg \div 10) \in FLOAT_ABOVE THEN 1 ELSE -1

\* mutant: the price is cut to two decimals instead of rounded
calc_price_floor(price_per_kg, variant) ==
    LET m == IF variant \in Known THEN WEIGHT_MULTIPLIER[variant] ELSE 4
    IN  10 * ((price_per_kg * m) \div 40)

\* round(price_per_kg * m, 2): the product by a power of two is exact in
\* binary, so a decimal tie is decided by the side of the decimal price its
\* double lies on, and goes to the even hundredth only where the double is exact
calc_price(price_per_kg, variant) ==
    LET m == IF variant \in Known THEN WEIGHT_MULTIPLIER[variant] ELSE 4
        q == (price_per_kg * m) \div 40
        r == (price_per_kg * m) % 40
    IN  10 * (IF r < 20 THEN q
              ELSE IF r > 20 THEN q + 1
              ELSE CASE FloatError(price_per_kg) = 1  -> q + 1
                     [] FloatError(price_per_kg) = -1 -> q
                     [] FloatError(price_per_kg) = 0  -> IF q % 2 = 0 THEN q ELSE q + 1)

\* the seeded catalogue in thousandths; one entry (Tomato 50.0) stands for
\* the eight, which differ in name and price only
SAMPLE_PRODUCTS == (1 :> [name |-> "Tomato", price_per_kg |-> 50000])

ORDER_STATUSES == <<"Order Placed", "Packed", "On The Way", "Delivered">>

\* ------------------------------------------------------- request inputs
ReqUserIds    == {BadId} \cup UserIds
MissingIds    == {9}        \* a well-formed id no document ever has
ReqVariants   == {"500g", "5kg"}
ReqQtys       == (-1)..MaxQty
ReqItemIds    == {BadId} \cup ItemIds
ReqAddrIds    == {BadId} \cup AddrIds
ReqOrderIds   == {BadId} \cup OrderIds
\* (address_id, payment_method) of a CreateOrderRequest
ReqCheckouts  == {<<1, "COD">>, <<2, "UPI">>}
ReqOtps       == {"1234", "0000"}

Response(op, code, val) == [op |-> op, code |-> code, val |-> val]

\* the store after startup over a product collection holding products
InitStore(products) ==
    /\ user = <<>>
    /\ product = products
    /\ address = <<>>
    /\ cartitem = <<>>
    /\ order = <<>>
    /\ nUser = 0 /\ nAddr = 0 /\ nItem = 0 /\ nOrder = 0
    /\ advances = <<>>
    /\ ret = Response("startup", 200, None)
    /\ proc = [p \in Procs |-> Idle]

\* on_startup seeds the empty product collection
Init == InitStore(SAMPLE_PRODUCTS)

\* ------------------------------------------------------------------ cart
\* mutant: the filter leaves the variant out
ExistingAnyVariant(user_id, product_id, variant) ==
    {i \in DOMAIN cartitem : /\ cartitem[i].user_id = user_id
                             /\ cartitem[i].product_id = product_id}

\* the lines find_one({user_id, product_id, variant}) can return
Existing(user_id, product_id, variant) ==
    {i \in DOMAIN cartitem : /\ cartitem[i].user_id = user_id
                             /\ cartitem[i].product_id = product_id
                             /\ cartitem[i].variant = variant}

\* mutant: the floor at 1 is missing
NewQtyNoFloor(existing_qty, qty) == existing_qty + qty

\* new_qty = max(1, int(existing.get("qty", 1)) + payload.qty)
NewQty(existing_qty, qty) == Max(1, existing_qty + qty)

\* mutant: the schema accepts any quantity
CartItemSchemaAny(qty) == TRUE

\* CartItem.qty: int = Field(1, ge=1)
CartItemSchemaOk(qty) == qty >= 1

add_to_cart(user_id, product_id, variant, qty) ==
    /\ UNCHANGED <<user, product, address, order, nUser, nAddr, nOrder, advances, proc>>
    /\ IF ~oid_ok(product_id)
       THEN /\ ret' = Response("add_to_cart", 400, None)
            /\ UNCHANGED <<cartitem, nItem>>
       ELSE IF product_id \notin DOMAIN product
       THEN /\ ret' = Response("add_to_cart", 404, None)
            /\ UNCHANGED <<cartitem, nItem>>
       ELSE LET unit_price == calc_price(product[product_id].price_per_kg, variant)
                found == Existing(user_id, product_id, variant)
            IN  IF found # {}
                THEN \E i \in found :
                       /\ NewQty(cartitem[i].qty, qty) <= MaxQty
                       /\ cartitem' = [cartitem EXCEPT ![i].qty = NewQty(@, qty)]
                       /\ ret' = Response("add_to_cart", 200, i)
                       /\ UNCHANGED nItem
                ELSE IF ~CartItemSchemaOk(qty)
                THEN /\ ret' = Response("add_to_cart", 500, None)
                     /\ UNCHANGED <<cartitem, nItem>>
                ELSE /\ nItem < MaxCart
                     /\ nItem' = nItem + 1
                     /\ cartitem' = create_document(cartitem, nItem + 1,
                            [user_id |-> user_id, product_id |-> product_id,
                             product_name |-> product[product_id].name,
                             variant |-> variant, qty |-> qty, price |-> unit_price])
                     /\ ret' = Response("add_to_cart", 200, nItem + 1)

\* mutant: zero is let through
QtyRejectedNegative(qty) == qty < 0

\* if payload.qty < 1: raise 400
QtyRejected(qty) == qty < 1

update_cart_qty(item_id, qty) ==
    /\ UNCHANGED <<user, product, address, order, nUser, nAddr, nItem, nOrder, advances, proc>>
    /\ IF QtyRejected(qty) \/ ~oid_ok(item_id)
       THEN /\ ret' = Response("update_cart_qty", 400, None)
            /\ UNCHANGED cartitem
       ELSE IF item_id \notin DOMAIN cartitem
       THEN /\ ret' = Response("update_cart_qty", 404, None)
            /\ UNCHANGED cartitem
       ELSE /\ cartitem' = [cartitem EXCEPT ![item_id].qty = qty]
            /\ ret' = Response("update_cart_qty", 200, None)

remove_cart_item(item_id) ==
    /\ UNCHANGED <<user, product, address, order, nUser, nAddr, nItem, nOrder, advances, proc>>
    /\ IF ~oid_ok(item_id)
       THEN /\ ret' = Response("remove_cart_item", 400, None)
            /\ UNCHANGED cartitem
       ELSE IF item_id \notin DOMAIN cartitem
       THEN /\ ret' = Response("remove_cart_item", 404, None)
            /\ UNCHANGED cartitem
       ELSE /\ cartitem' = delete_one(cartitem, item_id)
            /\ ret' = Response("remove_cart_item", 200, None)

\* ---------------------------------------------------------------- orders
\* cart = list(db["cartitem"].find({"user_id": user_id})): the documents, by value
CartOf(user_id) ==
    {[id |-> i, doc |-> cartitem[i]] : i \in {j \in DOMAIN cartitem : cartitem[j].user_id = user_id}}

RECURSIVE SumLines(_)
SumLines(lines) ==
    IF lines = {} THEN 0
    ELSE LET it == CHOOSE x \in lines : TRUE
         IN  it.doc.price * it.doc.qty + SumLines(lines \ {it})

RECURSIVE SumPrices(_)
SumPrices(lines) ==
    IF lines = {} THEN 0
    ELSE LET it == CHOOSE x \in lines : TRUE
         IN  it.doc.price + SumPrices(lines \ {it})

\* mutant: the quantity is left out of the total
OrderTotalNoQty(cart) == round2(SumPrices(cart), 1)

\* total += price * qty over the cart; total_amount = round(total, 2)
OrderTotal(cart) == round2(SumLines(cart), 1)

\* mutant: the empty-cart check is missing
CartIsEmptyUnchecked(cart) == FALSE

\* if not cart: raise 400
CartIsEmpty(cart) == cart = {}

create_order(user_id, address_id, payment_method) ==
    /\ UNCHANGED <<user, product, address, nUser, nAddr, nItem, proc>>
    /\ LET cart == CartOf(user_id)
       IN  IF CartIsEmpty(cart)
           THEN /\ ret' = Response("create_order", 400, None)
                /\ UNCHANGED <<cartitem, order, nOrder, advances>>
           ELSE /\ nOrder + 1 \in OrderIds
                /\ nOrder' = nOrder + 1
                /\ order' = create_document(order, nOrder + 1,
                       [user_id |-> user_id, items |-> cart, address_id |-> address_id,
                        payment_method |-> payment_method,
                        total_amount |-> OrderTotal(cart),
                        status |-> ORDER_STATUSES[1], eta |-> "30-45 mins"])
                /\ advances' = advances @@ ((nOrder + 1) :> 0)
                /\ cartitem' = [i \in {j \in DOMAIN cartitem : cartitem[j].user_id # user_id}
                                  |-> cartitem[i]]
                /\ ret' = Response("create_order", 200, nOrder + 1)

\* ORDER_STATUSES.index(status), 0 on ValueError (0-based, as in the code)
StatusIndex(status) ==
    IF \E k \in 1..Len(ORDER_STATUSES) : ORDER_STATUSES[k] = status
    THEN (CHOOSE k \in 1..Len(ORDER_STATUSES) : ORDER_STATUSES[k] = status) - 1
    ELSE 0

\* mutant: the index wraps round instead of stopping at the last status
NextStatusWrap(idx) == ORDER_STATUSES[((idx + 1) % Len(ORDER_STATUSES)) + 1]

\* mutant: the cap is one short of the last status
NextStatusShort(idx) == ORDER_STATUSES[Min(idx + 1, Len(ORDER_STATUSES) - 2) + 1]

\* ORDER_STATUSES[min(idx + 1, len(ORDER_STATUSES) - 1)]
NextStatus(idx) == ORDER_STATUSES[Min(idx + 1, Len(ORDER_STATUSES) - 1) + 1]

\* mutant: the update rewrites the eta as well
SetStatusAndEta(doc, new_status) == [doc EXCEPT !.status = new_status, !.eta = "arriving"]

\* update_one({"_id": o["_id"]}, {"$set": {"status": new_status}})
SetStatus(doc, new_status) == [doc EXCEPT !.status = new_status]

advance_order(order_id) ==
    /\ UNCHANGED <<user, product, address, cartitem, nUser, nAddr, nItem, nOrder, proc>>
    /\ IF ~oid_ok(order_id)
       THEN /\ ret' = Response("advance_order", 400, None)
            /\ UNCHANGED <<order, advances>>
       ELSE IF order_id \notin DOMAIN order
       THEN /\ ret' = Response("advance_order", 404, None)
            /\ UNCHANGED <<order, advances>>
       ELSE LET new_status == NextStatus(StatusIndex(order[order_id].status))
            IN  /\ advances[order_id] < MaxAdvance
                /\ order' = [order EXCEPT ![order_id] = SetStatus(@, new_status)]
                /\ advances' = [advances EXCEPT ![order_id] = @ + 1]
                /\ ret' = Response("advance_order", 200, new_status)

\* mutant: the index counts from one
ActiveIndexFromOne(status) ==
    CHOOSE k \in 1..Len(ORDER_STATUSES) : ORDER_STATUSES[k] = status

\* ORDER_STATUSES.index(status), 0-based; a ValueError where the status is not in the list
ActiveIndex(status) ==
    (CHOOSE k \in 1..Len(ORDER_STATUSES) : ORDER_STATUSES[k] = status) - 1

track_order(order_id) ==
    /\ UNCHANGED <<user, product, address, cartitem, order,
                   nUser, nAddr, nItem, nOrder, advances, proc>>
    /\ IF ~oid_ok(order_id)
       THEN ret' = Response("track_order", 400, None)
       ELSE IF order_id \notin DOMAIN order
       THEN ret' = Response("track_order", 404, None)
       ELSE LET o == order[order_id]
            IN  IF \A k \in 1..Len(ORDER_STATUSES) : ORDER_STATUSES[k] # o.status
                THEN ret' = Response("track_order", 500, None)
                ELSE ret' = Response("track_order", 200,
                                [status |-> o.status, steps |-> ORDER_STATUSES,
                                 active_index |-> ActiveIndex(o.status), eta |-> o.eta,
                                 location |-> "12.9716,77.5946"])

\* ------------------------------------------------------------------ auth
\* a user document: phone and default_address_id (name, email, token are kept out)
verify_otp(phone, otp) ==
    /\ UNCHANGED <<product, address, cartitem, order, nAddr, nItem, nOrder, advances, proc>>
    /\ IF otp # "1234"
       THEN /\ ret' = Response("verify_otp", 400, None)
            /\ UNCHANGED <<user, nUser>>
       ELSE LET existing == {u \in DOMAIN user : user[u].phone = phone}
            IN  IF existing # {}
                THEN /\ ret' = Response("verify_otp", 200, CHOOSE u \in existing : TRUE)
                     /\ UNCHANGED <<user, nUser>>
                ELSE /\ nUser' = nUser + 1
                     /\ user' = create_document(user, nUser + 1,
                                    [phone |-> phone, default_address_id |-> None])
                     /\ ret' = Response("verify_otp", 200, nUser + 1)

\* ------------------------------------------------------------- addresses
\* mutant: the clear-others update is missing
ClearNoDefaults(addr, user_id, keep_id) == addr

\* update_many({"user_id": user_id, "_id": {"$ne": keep_id}}, {"$set": {"is_default": False}})
ClearOtherDefaults(addr, user_id, keep_id) ==
    [i \in DOMAIN addr |->
        IF addr[i].user_id = user_id /\ i # keep_id
        THEN [addr[i] EXCEPT !.is_default = FALSE]
        ELSE addr[i]]

\* db["user"].update_one({"_id": oid(user_id)}, {"$set": {"default_address_id": addr_id}})
SetUserDefault(users, user_id, addr_id) ==
    IF user_id \in DOMAIN users
    THEN [users EXCEPT ![user_id].default_address_id = addr_id]
    ELSE users

create_address(user_id, is_default) ==
    /\ UNCHANGED <<product, cartitem, order, nUser, nItem, nOrder, advances, proc>>
    /\ nAddr < MaxAddr
    /\ nAddr' = nAddr + 1
    /\ LET addr_id == nAddr + 1
           inserted == create_document(address, addr_id,
                           [user_id |-> user_id, is_default |-> is_default])
           cleared == ClearOtherDefaults(inserted, user_id, addr_id)
       IN  IF ~is_default
           THEN /\ address' = inserted
                /\ UNCHANGED user
                /\ ret' = Response("create_address", 200, addr_id)
           ELSE IF ~oid_ok(user_id)
           THEN /\ address' = cleared
                /\ UNCHANGED user
                /\ ret' = Response("create_address", 400, None)
           ELSE /\ address' = cleared
                /\ user' = SetUserDefault(user, user_id, addr_id)
                /\ ret' = Response("create_address", 200, addr_id)

\* the PATCH body: the set of keys it carries and their values
Payload(fields, is_default, user_id) ==
    [fields |-> fields, is_default |-> is_default, user_id |-> user_id]

ReqPayloads ==
    {Payload({}, FALSE, BadId)}
    \cup {Payload({"is_default"}, b, BadId) : b \in BOOLEAN}
    \cup {Payload({"user_id"}, FALSE, u) : u \in ReqUserIds}
    \cup {Payload({"is_default", "user_id"}, b, u) : b \in BOOLEAN, u \in ReqUserIds}

\* {"$set": payload} on one address document
Merge(doc, payload) ==
    [user_id    |-> IF "user_id" \in payload.fields THEN payload.user_id ELSE doc.user_id,
     is_default |-> IF "is_default" \in payload.fields THEN payload.is_default
                    ELSE doc.is_default]

\* payload.get("is_default")
PayloadSetsDefault(payload) == "is_default" \in payload.fields /\ payload.is_default

update_address(address_id, payload) ==
    /\ UNCHANGED <<product, cartitem, order, nUser, nAddr, nItem, nOrder, advances, proc>>
    /\ IF payload.fields = {}
       THEN /\ ret' = Response("update_address", 200, None)
            /\ UNCHANGED <<address, user>>
       ELSE IF ~oid_ok(address_id)
       THEN /\ ret' = Response("update_address", 400, None)
            /\ UNCHANGED <<address, user>>
       ELSE LET merged == IF address_id \in DOMAIN address
                          THEN [address EXCEPT ![address_id] = Merge(@, payload)]
                          ELSE address
            IN  IF ~PayloadSetsDefault(payload) \/ address_id \notin DOMAIN merged
                THEN /\ address' = merged
                     /\ UNCHANGED user
                     /\ ret' = Response("update_address", 200, None)
                ELSE LET owner == merged[address_id].user_id
                         cleared == ClearOtherDefaults(merged, owner, address_id)
                     IN  IF ~oid_ok(owner)
                         THEN /\ address' = cleared
                              /\ UNCHANGED user
                              /\ ret' = Response("update_address", 400, None)
                         ELSE /\ address' = cleared
                              /\ user' = SetUserDefault(user, owner, address_id)
                              /\ ret' = Response("update_address", 200, None)

delete_address(address_id) ==
    /\ UNCHANGED <<user, product, cartitem, order, nUser, nAddr, nItem, nOrder, advances, proc>>
    /\ IF ~oid_ok(address_id)
       THEN /\ ret' = Response("delete_address", 400, None)
            /\ UNCHANGED address
       ELSE IF address_id \notin DOMAIN address
       THEN /\ ret' = Response("delete_address", 404, None)
            /\ UNCHANGED address
       ELSE /\ address' = delete_one(address, address_id)
            /\ ret' = Response("delete_address", 200, None)

NextAddress ==
    \/ \E ph \in Phones, otp \in ReqOtps : verify_otp(ph, otp)
    \/ \E u \in ReqUserIds, d \in BOOLEAN : create_address(u, d)
    \/ \E a \in ReqAddrIds, pl \in ReqPayloads : update_address(a, pl)
    \/ \E a \in ReqAddrIds : delete_address(a)

SpecAddress == Init /\ [][NextAddress]_vars

NextCart ==
    \/ \E u \in UserIds, p \in DOMAIN SAMPLE_PRODUCTS, v \in ReqVariants, q \in ReqQtys :
          add_to_cart(u, p, v, q)
    \/ \E p \in {BadId} \cup MissingIds : add_to_cart(1, p, "1kg", 1)
    \/ \E i \in ItemIds, q \in ReqQtys : update_cart_qty(i, q)
    \/ \E i \in ReqItemIds : remove_cart_item(i)
    \/ \E u \in UserIds : create_order(u, 1, "COD")

SpecCart == Init /\ [][NextCart]_vars

NextOrder ==
    \/ \E v \in ReqVariants : add_to_cart(1, 1, v, 1)
    \/ \E u \in UserIds : create_order(u, 1, "COD")
    \/ \E o \in ReqOrderIds \cup MissingIds : advance_order(o)
    \/ \E o \in ReqOrderIds \cup MissingIds : track_order(o)

SpecOrder == Init /\ [][NextOrder]_vars

\* every handler together, each on one fixed request (user 2 only fills a cart)
Next ==
    \/ verify_otp("p1", "1234")
    \/ \E u \in UserIds : add_to_cart(u, 1, "500g", 1)
    \/ update_cart_qty(1, MaxQty)
    \/ remove_cart_item(1)
    \/ \E c \in ReqCheckouts : create_order(1, c[1], c[2])
    \/ advance_order(1)
    \/ create_address(1, TRUE)
    \/ update_address(1, Payload({"is_default"}, TRUE, BadId))
    \/ delete_address(1)

Spec == Init /\ [][Next]_vars

\* ------------------------------------------------- pricing on its own
\* base prices in thousandths: every hundredth up to MaxBase, and the seed's
BasePrices == {10 * c : c \in 0..MaxBase} \cup {SAMPLE_PRODUCTS[1].price_per_kg}

PriceVariants == Known \cup {"5kg", ""}

\* a product collection that was filled before startup, so not seeded
InitPrice ==
    \E b \in BasePrices : InitStore([SAMPLE_PRODUCTS EXCEPT ![1].price_per_kg = b])

NextPrice ==
    \/ \E v \in PriceVariants : add_to_cart(1, 1, v, 1)
    \/ create_order(1, 1, "COD")

SpecPrice == InitPrice /\ [][NextPrice]_vars

\* ------------------------------------- address requests, call by call
\* the part of the store the address handlers touch, with the requests in flight
AddrState == [address |-> address, user |-> user, nAddr |-> nAddr, proc |-> proc]

\* a POST /api/addresses request about to make its first store call
CreateAddressReq(user_id, is_default) ==
    [op |-> "create_address", pc |-> "insert", user_id |-> user_id,
     is_default |-> is_default, addr_id |-> None, code |-> None]

\* a PATCH /api/addresses/{address_id} request (non-empty payload, well-formed
\* address_id) about to make its first store call
UpdateAddressReq(address_id, payload) ==
    [op |-> "update_address", pc |-> "set", address_id |-> address_id,
     payload |-> payload, owner |-> None, code |-> None]

Finished(r, code) == [r EXCEPT !.pc = "done", !.code = code]

\* the store after the next store call of request p, and where p goes from there
AddressStep(s, p) ==
    LET r == s.proc[p]
    IN  CASE r.op = "create_address" /\ r.pc = "insert" ->
               [s EXCEPT !.nAddr = @ + 1,
                         !.address = create_document(@, s.nAddr + 1,
                                         [user_id |-> r.user_id, is_default |-> r.is_default]),
                         !.proc[p] = IF r.is_default
                                     THEN [r EXCEPT !.addr_id = s.nAddr + 1, !.pc = "clear"]
                                     ELSE Finished([r EXCEPT !.addr_id = s.nAddr + 1], 200)]
          [] r.op = "create_address" /\ r.pc = "clear" ->
               [s EXCEPT !.address = ClearOtherDefaults(@, r.user_id, r.addr_id),
                         !.proc[p] = IF oid_ok(r.user_id) THEN [r EXCEPT !.pc = "user"]
                                     ELSE Finished(r, 400)]
          [] r.op = "create_address" /\ r.pc = "user" ->
               [s EXCEPT !.user = SetUserDefault(@, r.user_id, r.addr_id),
                         !.proc[p] = Finished(r, 200)]
          [] r.op = "update_address" /\ r.pc = "set" ->
               [s EXCEPT !.address = IF r.address_id \in DOMAIN @
                                     THEN [@ EXCEPT ![r.address_id] = Merge(@, r.payload)]
                                     ELSE @,
                         !.proc[p] = IF PayloadSetsDefault(r.payload)
                                     THEN [r EXCEPT !.pc = "find"]
                                     ELSE Finished(r, 200)]
          [] r.op = "update_address" /\ r.pc = "find" ->
               [s EXCEPT !.proc[p] = IF r.address_id \in DOMAIN s.address
                                     THEN [r EXCEPT !.owner = s.address[r.address_id].user_id,
                                                    !.pc = "clear"]
                                     ELSE Finished(r, 200)]
          [] r.op = "update_address" /\ r.pc = "clear" ->
               [s EXCEPT !.address = ClearOtherDefaults(@, r.owner, r.address_id),
                         !.proc[p] = IF oid_ok(r.owner) THEN [r EXCEPT !.pc = "user"]
                                     ELSE Finished(r, 400)]
          [] r.op = "update_address" /\ r.pc = "user" ->
               [s EXCEPT !.user = SetUserDefault(@, r.owner, r.address_id),
                         !.proc[p] = Finished(r, 200)]

\* no request is in flight or has been
Quiet == \A p \in Procs : proc[p] = Idle

AddrProcs == {"A", "B"}

\* the default-setting requests of user 1 that can arrive: a create, or an
\* update of one of the user's addresses that leaves user_id alone
ReqDefaultSetting ==
    {CreateAddressReq(1, TRUE)}
    \cup {UpdateAddressReq(a, Payload({"is_default"}, TRUE, BadId)) :
            a \in {b \in DOMAIN address : address[b].user_id = 1}}

\* creates that have arrived and not inserted yet
PendingInserts == {p \in Procs : proc[p].op = "create_address" /\ proc[p].pc = "insert"}

\* request req arrives in slot p
address_request(p, req) ==
    /\ proc[p] = Idle
    /\ 1 \in DOMAIN user
    /\ req.op = "create_address" => nAddr + Cardinality(PendingInserts) < MaxAddr
    /\ proc' = [proc EXCEPT ![p] = req]
    /\ UNCHANGED <<user, product, address, cartitem, order,
                   nUser, nAddr, nItem, nOrder, advances, ret>>

\* request p makes its next store call
address_call(p) ==
    /\ proc[p].op \in {"create_address", "update_address"}
    /\ proc[p].pc # "done"
    /\ LET s == AddressStep(AddrState, p)
       IN  /\ address' = s.address
           /\ user' = s.user
           /\ nAddr' = s.nAddr
           /\ proc' = s.proc
    /\ UNCHANGED <<product, cartitem, order, nUser, nItem, nOrder, advances, ret>>

\* user 1 signs in and stores addresses one request at a time; then two
\* default-setting requests run concurrently
NextAddressRace ==
    \/ Quiet /\ verify_otp("p1", "1234")
    \/ Quiet /\ \E d \in BOOLEAN : create_address(1, d)
    \/ \E p \in AddrProcs : \E req \in ReqDefaultSetting : address_request(p, req)
    \/ \E p \in AddrProcs : address_call(p)

SpecAddressRace == Init /\ [][NextAddressRace]_vars

\* --------------------------------------- order requests, call by call
\* a POST /api/orders/{order_id}/advance request about to read the order
AdvanceOrderReq(order_id) ==
    [op |-> "advance_order", pc |-> "find", order_id |-> order_id,
     status |-> None, code |-> None]

advance_request(p, order_id) ==
    /\ proc[p] = Idle
    /\ oid_ok(order_id)
    /\ proc' = [proc EXCEPT ![p] = AdvanceOrderReq(order_id)]
    /\ UNCHANGED <<user, product, address, cartitem, order,
                   nUser, nAddr, nItem, nOrder, advances, ret>>

\* o = db["order"].find_one({"_id": oid(order_id)})
advance_find(p) ==
    /\ proc[p].op = "advance_order" /\ proc[p].pc = "find"
    /\ LET r == proc[p]
       IN  proc' = [proc EXCEPT ![p] =
                       IF r.order_id \in DOMAIN order
                       THEN [r EXCEPT !.status = order[r.order_id].status, !.pc = "update"]
                       ELSE Finished(r, 404)]
    /\ UNCHANGED <<user, product, address, cartitem, order,
                   nUser, nAddr, nItem, nOrder, advances, ret>>

\* db["order"].update_one({"_id": o["_id"]}, {"$set": {"status": new_status}}),
\* new_status computed from the status that was read
advance_update(p) ==
    /\ proc[p].op = "advance_order" /\ proc[p].pc = "update"
    /\ LET o == proc[p].order_id
           new_status == NextStatus(StatusIndex(proc[p].status))
       IN  /\ order' = [order EXCEPT ![o] = SetStatus(@, new_status)]
           /\ advances' = [advances EXCEPT ![o] = @ + 1]
           /\ proc' = [proc EXCEPT ![p] = Finished(@, 200)]
    /\ UNCHANGED <<user, product, address, cartitem, nUser, nAddr, nItem, nOrder, ret>>

\* user 1 places an order; then advance requests on it run concurrently
NextAdvanceRace ==
    \/ Quiet /\ add_to_cart(1, 1, "500g", 1)
    \/ Quiet /\ create_order(1, 1, "COD")
    \/ \E p \in Procs : advance_request(p, 1)
    \/ \E p \in Procs : advance_find(p)
    \/ \E p \in Procs : advance_update(p)

SpecAdvanceRace == Init /\ [][NextAdvanceRace]_vars

\* ---------------------------------------- cart requests, call by call
\* a POST /api/cart/add request about to look its product up
AddToCartReq(user_id, product_id, variant, qty) ==
    [op |-> "add_to_cart", pc |-> "product", user_id |-> user_id,
     product_id |-> product_id, variant |-> variant, qty |-> qty,
     unit_price |-> None, existing |-> None, existing_qty |-> None,
     item_id |-> None, code |-> None]

\* a POST /api/orders/create request about to read the cart
CreateOrderReq(user_id, address_id, payment_method) ==
    [op |-> "create_order", pc |-> "cart", user_id |-> user_id,
     address_id |-> address_id, payment_method |-> payment_method,
     cart |-> {}, order_id |-> None, code |-> None]

cart_request(p, req) ==
    /\ proc[p] = Idle
    /\ proc' = [proc EXCEPT ![p] = req]
    /\ UNCHANGED <<user, product, address, cartitem, order,
                   nUser, nAddr, nItem, nOrder, advances, ret>>

\* prod = db["product"].find_one({"_id": oid(payload.product_id)}); unit_price
add_product(p) ==
    /\ proc[p].op = "add_to_cart" /\ proc[p].pc = "product"
    /\ LET r == proc[p]
       IN  proc' = [proc EXCEPT ![p] =
                       IF ~oid_ok(r.product_id) THEN Finished(r, 400)
                       ELSE IF r.product_id \notin DOMAIN product THEN Finished(r, 404)
                       ELSE [r EXCEPT !.pc = "existing",
                                      !.unit_price = calc_price(product[r.product_id].price_per_kg,
                                                                r.variant)]]
    /\ UNCHANGED <<user, product, address, cartitem, order,
                   nUser, nAddr, nItem, nOrder, advances, ret>>

\* existing = db["cartitem"].find_one({user_id, product_id, variant}): the document, by value
add_existing(p) ==
    /\ proc[p].op = "add_to_cart" /\ proc[p].pc = "existing"
    /\ LET r == proc[p]
           found == Existing(r.user_id, r.product_id, r.variant)
       IN  IF found = {}
           THEN proc' = [proc EXCEPT ![p] = [r EXCEPT !.pc = "write"]]
           ELSE \E i \in found :
                  proc' = [proc EXCEPT ![p] = [r EXCEPT !.pc = "write", !.existing = i,
                                                        !.existing_qty = cartitem[i].qty]]
    /\ UNCHANGED <<user, product, address, cartitem, order,
                   nUser, nAddr, nItem, nOrder, advances, ret>>

\* update_one({"_id": existing["_id"]}, {"$set": {"qty": new_qty}}), or
\* CartItemSchema(...) and create_document("cartitem", item)
add_write(p) ==
    /\ proc[p].op = "add_to_cart" /\ proc[p].pc = "write"
    /\ UNCHANGED <<user, product, address, order, nUser, nAddr, nOrder, advances, ret>>
    /\ LET r == proc[p]
       IN  IF r.existing # None
           THEN /\ cartitem' = IF r.existing \in DOMAIN cartitem
                               THEN [cartitem EXCEPT ![r.existing].qty = NewQty(r.existing_qty, r.qty)]
                               ELSE cartitem
                /\ proc' = [proc EXCEPT ![p] = Finished([r EXCEPT !.item_id = r.existing], 200)]
                /\ UNCHANGED nItem
           ELSE IF ~CartItemSchemaOk(r.qty)
           THEN /\ proc' = [proc EXCEPT ![p] = Finished(r, 500)]
                /\ UNCHANGED <<cartitem, nItem>>
           ELSE /\ nItem < MaxCart
                /\ nItem' = nItem + 1
                /\ cartitem' = create_document(cartitem, nItem + 1,
                       [user_id |-> r.user_id, product_id |-> r.product_id,
                        product_name |-> product[r.product_id].name,
                        variant |-> r.variant, qty |-> r.qty, price |-> r.unit_price])
                /\ proc' = [proc EXCEPT ![p] = Finished([r EXCEPT !.item_id = nItem + 1], 200)]

\* cart = list(db["cartitem"].find({"user_id": user_id})); if not cart: raise 400
checkout_cart(p) ==
    /\ proc[p].op = "create_order" /\ proc[p].pc = "cart"
    /\ LET r == proc[p]
           cart == CartOf(r.user_id)
       IN  proc' = [proc EXCEPT ![p] =
                       IF CartIsEmpty(cart) THEN Finished(r, 400)
                       ELSE [r EXCEPT !.cart = cart, !.pc = "insert"]]
    /\ UNCHANGED <<user, product, address, cartitem, order,
                   nUser, nAddr, nItem, nOrder, advances, ret>>

\* order_id = create_document("order", order), the order built from the cart that was read
checkout_insert(p) ==
    /\ proc[p].op = "create_order" /\ proc[p].pc = "insert"
    /\ nOrder + 1 \in OrderIds
    /\ LET r == proc[p]
       IN  /\ nOrder' = nOrder + 1
           /\ order' = create_document(order, nOrder + 1,
                  [user_id |-> r.user_id, items |-> r.cart, address_id |-> r.address_id,
                   payment_method |-> r.payment_method,
                   total_amount |-> OrderTotal(r.cart),
                   status |-> ORDER_STATUSES[1], eta |-> "30-45 mins"])
           /\ advances' = advances @@ ((nOrder + 1) :> 0)
           /\ proc' = [proc EXCEPT ![p] = [r EXCEPT !.order_id = nOrder + 1, !.pc = "clear"]]
    /\ UNCHANGED <<user, product, address, cartitem, nUser, nAddr, nItem, ret>>

\* db["cartitem"].delete_many({"user_id": user_id})
checkout_clear(p) ==
    /\ proc[p].op = "create_order" /\ proc[p].pc = "clear"
    /\ cartitem' = [i \in {j \in DOMAIN cartitem : cartitem[j].user_id # proc[p].user_id}
                      |-> cartitem[i]]
    /\ proc' = [proc EXCEPT ![p] = Finished(@, 200)]
    /\ UNCHANGED <<user, product, address, order, nUser, nAddr, nItem, nOrder, advances, ret>>

\* add and checkout requests of user 1 run concurrently
NextCartRace ==
    \/ \E p \in Procs, v \in ReqVariants, q \in {1, MaxQty} :
          cart_request(p, AddToCartReq(1, 1, v, q))
    \/ \E p \in Procs : cart_request(p, CreateOrderReq(1, 1, "COD"))
    \/ \E p \in Procs : add_product(p)
    \/ \E p \in Procs : add_existing(p)
    \/ \E p \in Procs : add_write(p)
    \/ \E p \in Procs : checkout_cart(p)
    \/ \E p \in Procs : checkout_insert(p)
    \/ \E p \in Procs : checkout_clear(p)

SpecCartRace == Init /\ [][NextCartRace]_vars

\* ================================================================ claims

DefaultsOf(addr, u) == {a \in DOMAIN addr : addr[a].user_id = u /\ addr[a].is_default}

\* C1: at most one address per user has is_default = true, in every state
\* reached by create/update/delete address calls run one at a time.
C1_AtMostOneDefault ==
    \A u \in UserIds : Cardinality(DefaultsOf(address, u)) <= 1

LinesFor(cart, u, p, v) ==
    {i \in DOMAIN cart : cart[i].user_id = u /\ cart[i].product_id = p /\ cart[i].variant = v}

C2_Unique ==
    \A i, j \in DOMAIN cartitem :
        (/\ cartitem[i].user_id = cartitem[j].user_id
         /\ cartitem[i].product_id = cartitem[j].product_id
         /\ cartitem[i].variant = cartitem[j].variant) => i = j

\* an add of qty 1 leaves exactly one line for its triple: a new line of
\* quantity 1 when there was none, the old line with one more when there was one
C2_AddOne ==
    ret'.op = "add_to_cart" => \A u \in UserIds, p \in DOMAIN product, v \in ReqVariants :
        add_to_cart(u, p, v, 1) =>
            /\ Cardinality(LinesFor(cartitem', u, p, v)) = 1
            /\ \A i \in LinesFor(cartitem', u, p, v) :
                  cartitem'[i].qty = IF i \in DOMAIN cartitem THEN cartitem[i].qty + 1 ELSE 1

\* C2: the cart holds at most one line per (user_id, product_id, variant), and
\* adding the same triple twice with qty 1 yields exactly one line with qty 2.
C2_OneLinePerTriple == [][C2_AddOne /\ C2_Unique']_vars

C2_Witness ==
    /\ ret.op = "add_to_cart" /\ ret.code = 200
    /\ ret.val \in DOMAIN cartitem /\ ret.val < nItem
    /\ cartitem[ret.val].qty = 2

UserLines(cart, u) == {i \in DOMAIN cart : cart[i].user_id = u}

RECURSIVE LineSum(_, _)
LineSum(cart, ids) ==
    IF ids = {} THEN 0
    ELSE LET i == CHOOSE x \in ids : TRUE
         IN  cart[i].price * cart[i].qty + LineSum(cart, ids \ {i})

C3_Step ==
    (ret'.op = "create_order" /\ ret'.code = 200) => \A u \in UserIds, c \in ReqCheckouts :
        create_order(u, c[1], c[2]) =>
            LET o == ret'.val
                mine == UserLines(cartitem, u)
            IN  /\ o \notin DOMAIN order /\ o \in DOMAIN order'
                /\ order'[o].items = {[id |-> i, doc |-> cartitem[i]] : i \in mine}
                /\ mine # {}
                /\ order'[o].total_amount = LineSum(cartitem, mine)
                /\ order'[o].status = "Order Placed"
                /\ order'[o].user_id = u
                /\ UserLines(cartitem', u) = {}
                /\ DOMAIN cartitem' = DOMAIN cartitem \ mine
                /\ \A i \in DOMAIN cartitem' : cartitem'[i] = cartitem[i]

\* C3: a successful createOrder snapshots exactly the user's cart lines, totals
\* price x qty over them, starts at Order Placed, empties the user's cart and
\* leaves other users' lines alone.
C3_CreateOrderSnapshot == [][C3_Step]_vars

C3_Witness ==
    /\ ret.op = "create_order" /\ ret.code = 200
    /\ \E it \in order[ret.val].items : it.doc.qty = 2
    /\ order[ret.val].total_amount = 50000
    /\ cartitem # <<>>

C6_Step ==
    ret'.op = "create_order" => \A u \in UserIds, c \in ReqCheckouts :
        (UserLines(cartitem, u) = {} /\ create_order(u, c[1], c[2])) =>
            /\ ret'.code = 400
            /\ order' = order
            /\ <<user, product, address, cartitem>>' = <<user, product, address, cartitem>>

\* C6: createOrder on an empty cart fails with InvalidArgument (400), creates
\* no order document and leaves every collection unchanged.
C6_EmptyCartRejected == [][C6_Step]_vars

C6_Witness ==
    /\ ret.op = "create_order" /\ ret.code = 400
    /\ cartitem # <<>> /\ order # <<>>

\* position in Order Placed -> Packed -> On The Way -> Delivered
Rank(status) ==
    CASE status = "Order Placed" -> 0
      [] status = "Packed"       -> 1
      [] status = "On The Way"   -> 2
      [] status = "Delivered"    -> 3

C4_Step ==
    \A o \in DOMAIN order :
        (ret'.op = "advance_order" /\ advance_order(o)) =>
            /\ ret'.code = 200
            /\ Rank(order'[o].status) =
                  IF order[o].status = "Delivered" THEN 3 ELSE Rank(order[o].status) + 1
            /\ ret'.val = order'[o].status

C4_Monotone ==
    \A o \in DOMAIN order :
        /\ o \in DOMAIN order'
        /\ Rank(order'[o].status) >= Rank(order[o].status)
        /\ order[o].status = "Delivered" => order'[o].status = "Delivered"

\* C4: each advanceStatus on an existing order moves the status one step
\* forward and returns it; at Delivered it succeeds, returns Delivered and
\* changes nothing; the status never moves backward.
C4_AdvanceOneStep == [][C4_Step /\ C4_Monotone]_vars

C4_Witness ==
    /\ ret.op = "advance_order" /\ ret.code = 200 /\ ret.val = "Delivered"
    /\ \E o \in DOMAIN order : order[o].status = "Delivered" /\ advances[o] = 5

\* C5 as stated: Delivered is reached by the 4th call (not before it) and
\* kept by the 5th.
C5_DeliveredAfterFour ==
    \A o \in DOMAIN order :
        (order[o].status = "Delivered") <=> (advances[o] >= 4)

C5_Count ==
    \A o \in DOMAIN order : Rank(order[o].status) = IF advances[o] < 3 THEN advances[o] ELSE 3

C5_NoError ==
    \A o \in DOMAIN order :
        (ret'.op = "advance_order" /\ advance_order(o)) =>
            ret'.code = 200 /\ advances'[o] = advances[o] + 1

\* C5 (amended): after k advanceStatus calls on a fresh order the status is
\* the k-th successor of Order Placed, so Delivered is reached after 3 calls
\* and kept by the 4th and 5th; no call returns an error.
C5_DeliveredAfterThree == [][C5_Count' /\ C5_NoError]_vars

C5_Witness ==
    \E o \in DOMAIN order : advances[o] = 5 /\ order[o].status = "Delivered"

C7_Step ==
    ret'.op = "update_cart_qty" => \A i \in ItemIds, q \in ReqQtys :
        update_cart_qty(i, q) =>
            /\ <<user, product, address, order>>' = <<user, product, address, order>>
            /\ q < 1 => ret'.code = 400 /\ cartitem' = cartitem
            /\ (q >= 1 /\ i \in DOMAIN cartitem) =>
                  /\ ret'.code = 200
                  /\ DOMAIN cartitem' = DOMAIN cartitem
                  /\ cartitem'[i].qty = q
                  /\ \A j \in DOMAIN cartitem :
                        /\ j # i => cartitem'[j] = cartitem[j]
                        /\ cartitem'[j].user_id = cartitem[j].user_id
                        /\ cartitem'[j].product_id = cartitem[j].product_id
                        /\ cartitem'[j].product_name = cartitem[j].product_name
                        /\ cartitem'[j].variant = cartitem[j].variant
                        /\ cartitem'[j].price = cartitem[j].price
            /\ (q >= 1 /\ i \notin DOMAIN cartitem) => ret'.code = 404 /\ cartitem' = cartitem

\* C7: setQuantity with qty < 1 fails with InvalidArgument (400) and changes
\* nothing; with qty >= 1 it sets exactly that line's quantity to qty; on a
\* well-formed id that no line has it fails with NotFound (404), changing nothing.
C7_SetQuantity == [][C7_Step]_vars

C7_Witness ==
    /\ ret.op = "update_cart_qty" /\ ret.code = 400
    /\ cartitem # <<>>

\* C8 as stated: an add that hits an existing line never decreases its quantity.
C8_NeverDecreases ==
    [][\A u \in UserIds, p \in DOMAIN product, v \in ReqVariants, q \in ReqQtys :
          add_to_cart(u, p, v, q) =>
              \A i \in LinesFor(cartitem, u, p, v) : cartitem'[i].qty >= cartitem[i].qty]_vars

C8_Step ==
    ret'.op = "add_to_cart" =>
      \A u \in UserIds, p \in DOMAIN product, v \in ReqVariants, q \in ReqQtys :
        add_to_cart(u, p, v, q) =>
            \A i \in LinesFor(cartitem, u, p, v) :
                /\ cartitem'[i].qty = IF cartitem[i].qty + q >= 1 THEN cartitem[i].qty + q ELSE 1
                /\ cartitem'[i].qty >= 1
                /\ q >= 0 => cartitem'[i].qty >= cartitem[i].qty

\* C8 (amended): an add that hits an existing line sets its quantity to
\* max(1, before + qty): never below 1, and not below the quantity before
\* whenever qty >= 0 (a negative qty does decrease it).
C8_FlooredAtOne == [][C8_Step]_vars

C8_Witness ==
    /\ ret.op = "add_to_cart" /\ ret.code = 200
    /\ ret.val \in DOMAIN cartitem /\ ret.val < nItem
    /\ cartitem[ret.val].qty = 1

C9_Post(u, a) ==
    /\ a \in DOMAIN address'
    /\ address'[a].user_id = u
    /\ DefaultsOf(address', u) = {a}
    /\ DOMAIN user' = DOMAIN user
    /\ user'[u].default_address_id = a
    /\ \A w \in DOMAIN user \ {u} : user'[w] = user[w]
    /\ \A b \in DOMAIN address \ {a} :
          address[b].user_id # u => b \in DOMAIN address' /\ address'[b] = address[b]

C9_Create ==
    \A u \in DOMAIN user :
        (ret'.op = "create_address" /\ ret'.code = 200 /\ create_address(u, TRUE)) => C9_Post(u, nAddr + 1)

C9_Update ==
    \A a \in DOMAIN address, pl \in ReqPayloads :
        (/\ ret'.op = "update_address" /\ ret'.code = 200
         /\ PayloadSetsDefault(pl)
         /\ address[a].user_id \in DOMAIN user
         /\ update_address(a, pl)) => C9_Post(address[a].user_id, a)

\* C9: after createAddress with is_default = true for an existing user u, or
\* updateAddress setting is_default = true on one of u's addresses, that
\* address is u's only default, u.default_address_id is its id, and no other
\* user's addresses or default_address_id change.
C9_DefaultPropagation == [][C9_Create /\ C9_Update]_vars

C10_Step ==
    \A o \in DOMAIN order :
        /\ o \in DOMAIN order'
        /\ order'[o].items = order[o].items
        /\ order'[o].total_amount = order[o].total_amount
        /\ order'[o].user_id = order[o].user_id
        /\ order'[o].address_id = order[o].address_id
        /\ order'[o].payment_method = order[o].payment_method
        /\ order'[o].eta = order[o].eta

\* C10: once created, an order's items, total_amount, user_id, address_id,
\* payment_method and eta never change and the order is never deleted, under
\* every cart, address, order and advance call; only status is modified.
C10_OrderImmutable == [][C10_Step]_vars

C10_Witness ==
    \E o \in DOMAIN order :
        /\ order[o].status = "Delivered"
        /\ \E i \in DOMAIN cartitem : cartitem[i].user_id = order[o].user_id
        /\ address # <<>>

\* C11: every call that ends in a validation error (400) leaves all the
\* collections exactly as they were before the call, createAddress and
\* updateAddress with a malformed owning user_id and is_default = true included.
C11_NoPartialChange ==
    [][ret'.code = 400 =>
          <<user, product, address, cartitem, order>>' = <<user, product, address, cartitem, order>>]_vars

\* the stores two requests in flight can end in: every order of their
\* remaining store calls, run to completion
RECURSIVE C12_Outcomes(_)
C12_Outcomes(s) ==
    LET live == {p \in Procs : s.proc[p].pc # "done"}
    IN  IF live = {} THEN {s}
        ELSE UNION {C12_Outcomes(AddressStep(s, p)) : p \in live}

\* both requests have arrived and neither has made a store call
C12_Arrived ==
    \A p \in AddrProcs : proc[p] # Idle /\ proc[p].pc \in {"insert", "set"}

C12_Completed == \A p \in AddrProcs : proc[p] # Idle /\ proc[p].pc = "done"

\* C12 as stated: two concurrent default-setting requests of one user have an
\* interleaving of their store calls after which, both completed, two of the
\* user's addresses have is_default = true.
C12_SomeInterleavingLeavesTwo ==
    C12_Arrived =>
        \E f \in C12_Outcomes(AddrState) : Cardinality(DefaultsOf(f.address, 1)) >= 2

\* the two requests are not updates of one and the same address
C12_DifferentAddresses ==
    \/ \E p \in AddrProcs : proc[p].op = "create_address"
    \/ Cardinality({proc[p].address_id : p \in AddrProcs}) = 2

\* C12 (amended): with store calls as the atomic steps, no interleaving of two
\* concurrent default-setting requests of one user ends with two of the
\* user's addresses default; when the requests are for different addresses
\* there is an interleaving that ends with none of them default.
C12_NeverTwoDefaults ==
    /\ C12_Completed => Cardinality(DefaultsOf(address, 1)) <= 1
    /\ C12_Arrived =>
          /\ \A f \in C12_Outcomes(AddrState) : Cardinality(DefaultsOf(f.address, 1)) <= 1
          /\ C12_DifferentAddresses =>
                \E f \in C12_Outcomes(AddrState) : DefaultsOf(f.address, 1) = {}

C12_Witness ==
    /\ C12_Completed
    /\ \A p \in AddrProcs : proc[p].code = 200
    /\ DefaultsOf(address, 1) = {}
    /\ address # <<>>

\* C20: after two concurrent createAddress requests with is_default = true
\* for the same existing user have both completed, exactly one of the user's
\* addresses is default and user.default_address_id is its id.
C20_ExactlyOneDefault ==
    (\A p \in AddrProcs : proc[p].op = "create_address" /\ proc[p].pc = "done") =>
        \E a \in DOMAIN address :
            DefaultsOf(address, 1) = {a} /\ user[1].default_address_id = a

C13_Step ==
    ret'.op = "track_order" => \A o \in ReqOrderIds \cup MissingIds :
        track_order(o) =>
            /\ <<user, product, address, cartitem, order>>' = <<user, product, address, cartitem, order>>
            /\ (oid_ok(o) /\ o \notin DOMAIN order) => ret'.code = 404
            /\ o \in DOMAIN order =>
                  /\ ret'.code = 200
                  /\ ret'.val.status = order[o].status
                  /\ ret'.val.steps = <<"Order Placed", "Packed", "On The Way", "Delivered">>
                  /\ ret'.val.steps[ret'.val.active_index + 1] = order[o].status
                  /\ ret'.val.active_index = Rank(order[o].status)
                  /\ ret'.val.active_index = Min(advances[o], 3)

\* C13: getTracking on an existing order returns the stored status, the full
\* list of four statuses and the 0-based position of the status in it, which
\* after k advances on a fresh order is min(k, 3); it modifies no state; on a
\* well-formed id that no order has it fails with NotFound (404).
C13_Tracking == [][C13_Step]_vars

C13_Witness ==
    /\ ret.op = "track_order" /\ ret.code = 200
    /\ ret.val.active_index = 3
    /\ \E o \in DOMAIN order : advances[o] > 3

\* the claim's multipliers, in quarters; an unrecognized variant counts as 1kg
C14_Mult(variant) ==
    CASE variant = "250g" -> 1
      [] variant = "500g" -> 2
      [] variant = "1kg"  -> 4
      [] variant = "2kg"  -> 8
      [] OTHER            -> 4

\* every line that was priced: the cart's lines and the orders' snapshots
C14_Priced ==
    {cartitem[i] : i \in DOMAIN cartitem}
    \cup UNION {{it.doc : it \in order[o].items} : o \in DOMAIN order}

\* C14 as stated: the stored unit price is the base price times the
\* variant's multiplier.
C14_ExactProduct ==
    \A l \in C14_Priced :
        4 * l.price = product[l.product_id].price_per_kg * C14_Mult(l.variant)

\* C14 (amended): the stored unit price is the base price times the variant's
\* multiplier rounded to the nearest hundredth (the product itself where it
\* has at most two decimals); it is non-negative, the same on every
\* evaluation, and for an unrecognized variant the 1kg price; base 50 with
\* 500g gives 25.
C14_RoundedProduct ==
    /\ \A l \in C14_Priced :
          LET base == product[l.product_id].price_per_kg
              exact4 == base * C14_Mult(l.variant)
          IN  /\ l.price >= 0
              /\ l.price % 10 = 0
              /\ (4 * l.price - exact4) \in (-20)..20
              /\ exact4 % 40 = 0 => 4 * l.price = exact4
              /\ l.variant \notin {"250g", "500g", "1kg", "2kg"} => l.price = base
              /\ (base = 50000 /\ l.variant = "500g") => l.price = 25000
    /\ \A l1, l2 \in C14_Priced :
          (l1.product_id = l2.product_id /\ C14_Mult(l1.variant) = C14_Mult(l2.variant))
              => l1.price = l2.price

\* a 250g price that had to be rounded, computed for an order's line and
\* again for a later cart line
C14_Witness ==
    \E i \in DOMAIN cartitem, o \in DOMAIN order : \E it \in order[o].items :
        /\ it.doc.variant = "250g" /\ cartitem[i].variant = "250g"
        /\ 4 * cartitem[i].price # product[1].price_per_kg
        /\ cartitem[i].price > 0

\* C15: in every state reached by addItem (any integer qty, zero and
\* negative included), setQuantity, removeItem and createOrder calls, every
\* stored cart line has qty >= 1, and so has every line an order snapshotted.
C15_QtyAtLeastOne ==
    /\ \A i \in DOMAIN cartitem : cartitem[i].qty >= 1
    /\ \A o \in DOMAIN order : \A it \in order[o].items : it.doc.qty >= 1

\* an add with qty < 1 for a new line has just been turned down, with a line
\* in the cart and a line in an order
C15_Witness ==
    /\ ret.op = "add_to_cart" /\ ret.code = 500
    /\ cartitem # <<>>
    /\ \E o \in DOMAIN order : order[o].items # {}

\* C16: with advanceStatus run as its two store calls, under every
\* interleaving of concurrent advanceStatus requests on one order the stored
\* status never moves backward, and a Delivered order stays Delivered.
C16_NeverBackward ==
    [][\A o \in DOMAIN order :
          /\ Rank(order'[o].status) >= Rank(order[o].status)
          /\ order[o].status = "Delivered" => order'[o].status = "Delivered"]_vars

\* C17: with createOrder run as its three store calls, under every
\* interleaving with concurrent addItem requests of the same user, every cart
\* line the cart-clear deletes is one of the created order's items.
C17_NoLineLost ==
    [][\A p \in Procs :
          checkout_clear(p) =>
              \A i \in DOMAIN cartitem \ DOMAIN cartitem' :
                  \E it \in order[proc[p].order_id].items : it.id = i]_vars

\* C18: under every interleaving of two concurrent createOrder requests of
\* one user, no cart line is snapshotted into more than one order.
C18_NoLineInTwoOrders ==
    \A o1, o2 \in DOMAIN order :
        o1 # o2 => {it.id : it \in order[o1].items} \cap {it.id : it \in order[o2].items} = {}

RECURSIVE C19_Requested(_)
C19_Requested(ps) ==
    IF ps = {} THEN 0
    ELSE LET p == CHOOSE x \in ps : TRUE
         IN  proc[p].qty + C19_Requested(ps \ {p})

\* C19: with addItem run as its store calls, once concurrent addItem requests
\* for one (user, product, variant) on an empty cart have all completed, the
\* cart holds one line for the triple and its quantity is the sum of the
\* requested quantities.
C19_OneLineWithSum ==
    (\A p \in Procs : proc[p] = Idle \/ (proc[p].op = "add_to_cart" /\ proc[p].pc = "done"))
        => \A v \in ReqVariants :
              LET same == {p \in Procs : proc[p] # Idle /\ proc[p].variant = v}
                  lines == LinesFor(cartitem, 1, 1, v)
              IN  same # {} =>
                      /\ Cardinality(lines) = 1
                      /\ \A i \in lines : cartitem[i].qty = C19_Requested(same)

====
